---- MODULE Spec2Model ----
(***************************************************************************)
(* TLA+ model of rtpar: RTP payload depacketizers, the codec guesser, the  *)
(* frame boundary analyzer and the frame reassembler.                      *)
(*                                                                         *)
(* Bytes are naturals in 0..255, payloads are sequences of bytes, Rust     *)
(* Option values are sequences of length 0 (None) or 1 (Some).  BTreeMap   *)
(* and HashMap values are functions whose DOMAIN is the key set.           *)
(***************************************************************************)
EXTENDS Integers, Sequences, FiniteSets, TLC

\* ------------------------------------------------------------------ bounds
\* Number of push_packet calls explored in one behaviour of each specification.
MaxPushes == 3
MaxPushesSeq == 4
MaxPushesPayload == 3
MaxPushesSsrc == 3
MaxPushesFu == 3
MaxPushesAgg == 1
MaxPushesVp9 == 3
MaxBufTail == 6
MaxAggTail == 4
MaxFrameLen == 5
MaxPushesCodec == 3

\* ------------------------------------------------------------- Rust values
None == <<>>
Some(x) == <<x>>
is_none(o) == o = <<>>
is_some(o) == o /= <<>>
unwrap(o) == o[1]
unwrap_or(o, d) == IF o = <<>> THEN d ELSE o[1]

\* payload[i] and payload[from..] / payload[from..to] with Rust's 0-based indices
At(payload, i) == payload[i + 1]
SliceFrom(payload, from) == SubSeq(payload, from + 1, Len(payload))
Slice(payload, from, to) == SubSeq(payload, from + 1, to)

\* u16::wrapping_sub
wrapping_sub(a, b) == (a - b + 65536) % 65536

\* bit tests and bit fields of a byte: (b & (1 << n)) != 0, (b >> lo) & (2^w - 1)
Bit(b, n) == (b \div (2 ^ n)) % 2 = 1
Field(b, lo, w) == (b \div (2 ^ lo)) % (2 ^ w)

\* codecs::Codec
Codecs == {"Vp9", "Avc", "Hevc", "Av1", "Unknown"}

\* ------------------------------------------------------------------ rtp.rs
\* u16::from_be_bytes / u32::from_be_bytes
be16(b0, b1) == b0 * 256 + b1
be32(b0, b1, b2, b3) == ((b0 * 256 + b1) * 256 + b2) * 256 + b3

\* Err(RtpError::...); InvalidVersion carries the version read
RtpErr(e, version) == [ok |-> FALSE, err |-> e, version |-> version]

\* the CSRC loop of RtpPacket::parse: n identifiers left to read at offset
RECURSIVE csrc_loop(_, _, _, _)
csrc_loop(buffer, n, offset, csrcs) ==
    IF n = 0 THEN [ok |-> TRUE, offset |-> offset, csrcs |-> csrcs]
    ELSE IF Len(buffer) < offset + 4 THEN [ok |-> FALSE, offset |-> offset, csrcs |-> csrcs]
    ELSE csrc_loop(buffer, n - 1, offset + 4,
                   Append(csrcs, be32(At(buffer, offset), At(buffer, offset + 1),
                                      At(buffer, offset + 2), At(buffer, offset + 3))))

\* the header-extension block of RtpPacket::parse
parse_extension(buffer, extension, offset) ==
    IF ~extension THEN [err |-> "None", offset |-> offset, extension_header |-> None]
    ELSE IF Len(buffer) < offset + 4
    THEN [err |-> "BufferTooShort", offset |-> offset, extension_header |-> None]
    ELSE LET profile == be16(At(buffer, offset), At(buffer, offset + 1))
             length_words == be16(At(buffer, offset + 2), At(buffer, offset + 3))
             data_offset == offset + 4
             ext_len_bytes == length_words * 4
         IN  IF Len(buffer) < data_offset + ext_len_bytes
             THEN [err |-> "InvalidExtensionLength", offset |-> data_offset,
                   extension_header |-> None]
             ELSE [err |-> "None", offset |-> data_offset + ext_len_bytes,
                   extension_header |->
                       Some([profile |-> profile, length_words |-> length_words,
                             data_offset |-> data_offset, data_len |-> ext_len_bytes])]

payload_end_ignore_padding(buffer, offset, padding) == Some(Len(buffer))

\* the padding block of RtpPacket::parse: Some(payload_end), None for the error
payload_end(buffer, offset, padding) ==
    IF padding
    THEN IF Len(buffer) <= offset THEN None
         ELSE LET pad == buffer[Len(buffer)]
              IN  IF pad = 0 \/ pad > Len(buffer) - offset THEN None
                  ELSE Some(Len(buffer) - pad)
    ELSE Some(Len(buffer))

\* RtpPacket::parse
RtpPacket_parse(buffer) ==
    IF Len(buffer) < 12 THEN RtpErr("BufferTooShort", 0)
    ELSE LET b0 == At(buffer, 0)
             version == Field(b0, 6, 2)
             padding == Bit(b0, 5)
             extension == Bit(b0, 4)
             csrc_count == Field(b0, 0, 4)
             b1 == At(buffer, 1)
             cs == csrc_loop(buffer, csrc_count, 12, <<>>)
             ex == parse_extension(buffer, extension, cs.offset)
             pe == payload_end(buffer, ex.offset, padding)
         IN  IF version /= 2 THEN RtpErr("InvalidVersion", version)
             ELSE IF ~cs.ok THEN RtpErr("BufferTooShort", version)
             ELSE IF ex.err /= "None" THEN RtpErr(ex.err, version)
             ELSE IF is_none(pe) THEN RtpErr("BufferTooShort", version)
             ELSE [ok |-> TRUE, err |-> "None", version |-> version,
                   header |-> [version |-> version, padding |-> padding,
                               extension |-> extension, csrc_count |-> csrc_count,
                               marker |-> Bit(b1, 7), payload_type |-> Field(b1, 0, 7),
                               sequence_number |-> be16(At(buffer, 2), At(buffer, 3)),
                               timestamp |-> be32(At(buffer, 4), At(buffer, 5),
                                                  At(buffer, 6), At(buffer, 7)),
                               ssrc |-> be32(At(buffer, 8), At(buffer, 9),
                                             At(buffer, 10), At(buffer, 11)),
                               csrcs |-> cs.csrcs,
                               extension_header |-> ex.extension_header],
                   payload_offset |-> ex.offset,
                   payload |-> Slice(buffer, ex.offset, unwrap(pe))]

\* ---------------------------------------------------------- codecs/avc.rs
avc_vcl_type_any(nal_type) == TRUE

avc_vcl_type(nal_type) == nal_type \in 1..5

NalKind(tag, start, end, nal_type) ==
    [tag |-> tag, start |-> start, end |-> end, nal_type |-> nal_type]

Ok(kind, off) == [ok |-> TRUE, kind |-> kind, off |-> off]
Err == [ok |-> FALSE, kind |-> NalKind("BufferTooShort", FALSE, FALSE, 0), off |-> 0]

parse_avc_payload_header(payload) ==
    IF Len(payload) = 0 THEN Err
    ELSE LET indicator == At(payload, 0)
             nal_type == Field(indicator, 0, 5)
         IN  CASE nal_type \in 1..23 -> Ok(NalKind("Single", FALSE, FALSE, nal_type), 0)
               [] nal_type = 24 -> Ok(NalKind("StapA", FALSE, FALSE, nal_type), 1)
               [] nal_type = 25 -> Ok(NalKind("StapB", FALSE, FALSE, nal_type), 1)
               [] nal_type = 26 -> Ok(NalKind("Mtap16", FALSE, FALSE, nal_type), 1)
               [] nal_type = 27 -> Ok(NalKind("Mtap24", FALSE, FALSE, nal_type), 1)
               [] nal_type \in {28, 29} ->
                    IF Len(payload) < 2 THEN Err
                    ELSE LET fu_header == At(payload, 1)
                             start == Bit(fu_header, 7)
                             end == Bit(fu_header, 6)
                             nt == Field(fu_header, 0, 5)
                         IN  Ok(NalKind(IF nal_type = 28 THEN "FuA" ELSE "FuB",
                                        start, end, nt), 2)
               [] OTHER -> Ok(NalKind("Unknown", FALSE, FALSE, nal_type), 0)

\* --------------------------------------------------------- codecs/hevc.rs
hevc_vcl_type(nal_type) == nal_type <= 31

parse_hevc_payload_header(payload) ==
    IF Len(payload) < 2 THEN Err
    ELSE LET b0 == At(payload, 0)
             nal_type == Field(b0, 1, 6)
         IN  CASE nal_type = 48 -> Ok(NalKind("Ap", FALSE, FALSE, nal_type), 2)
               [] nal_type = 49 ->
                    IF Len(payload) < 3 THEN Err
                    ELSE LET fu_header == At(payload, 2)
                             start == Bit(fu_header, 7)
                             end == Bit(fu_header, 6)
                             orig_type == Field(fu_header, 0, 6)
                         IN  Ok(NalKind("Fu", start, end, orig_type), 3)
               [] nal_type = 50 -> Ok(NalKind("Pacsi", FALSE, FALSE, nal_type), 2)
               [] nal_type \in (0..47) \cup (51..63) ->
                    Ok(NalKind("Single", FALSE, FALSE, nal_type), 0)
               [] OTHER -> Ok(NalKind("Unknown", FALSE, FALSE, nal_type), 0)

\* ---------------------------------------------------------- codecs/vp9.rs
\* Vp9PayloadDesc::parse: the descriptor's flag bits and the consumed length.
Vp9Desc(b0) ==
    [i_bit |-> Bit(b0, 7), p_bit |-> Bit(b0, 6), l_bit |-> Bit(b0, 5),
     f_bit |-> Bit(b0, 4), b_bit |-> Bit(b0, 3), e_bit |-> Bit(b0, 2),
     v_bit |-> Bit(b0, 1), z_bit |-> Bit(b0, 0)]

Vp9Err == [ok |-> FALSE, desc |-> Vp9Desc(0), off |-> 0]

Vp9PayloadDesc_parse(buf) ==
    IF Len(buf) = 0 THEN Vp9Err
    ELSE LET b0 == At(buf, 0)
             desc == Vp9Desc(b0)
         IN  IF desc.i_bit
             THEN IF Len(buf) < 1 + 1 THEN Vp9Err
                  ELSE LET m == Bit(At(buf, 1), 7)
                       IN  IF m
                           THEN IF Len(buf) < 2 + 1 THEN Vp9Err
                                ELSE [ok |-> TRUE, desc |-> desc, off |-> 3]
                           ELSE [ok |-> TRUE, desc |-> desc, off |-> 2]
             ELSE [ok |-> TRUE, desc |-> desc, off |-> 1]

\* ---------------------------------------------------------- codecs/av1.rs
parse_av1_unchecked(payload) == [ok |-> TRUE, off |-> 1]

parse_av1_payload_header(payload) ==
    IF Len(payload) = 0 THEN [ok |-> FALSE, off |-> 0]
    ELSE [ok |-> TRUE, off |-> 1]

\* ----------------------------------------------------------------- guess.rs
guess_codec_avc_first(payload) ==
    IF Len(payload) = 0 THEN "Unknown"
    ELSE LET b0 == At(payload, 0)
             hevc_fu == /\ Len(payload) >= 3
                        /\ Field(b0, 1, 6) = 49
                        /\ (Bit(At(payload, 2), 7) \/ Bit(At(payload, 2), 6))
             avc_type == Field(b0, 0, 5)
             avc_nri_nonzero == Field(b0, 5, 2) /= 0
         IN  IF hevc_fu THEN "Hevc"
             ELSE IF avc_type \in 24..29 /\ Len(payload) >= 2 /\ avc_nri_nonzero THEN "Avc"
             ELSE IF avc_type \in 1..23 /\ avc_nri_nonzero THEN "Avc"
             ELSE IF Field(b0, 0, 2) = 0 THEN "Av1"
             ELSE "Vp9"

guess_codec(payload) ==
    IF Len(payload) = 0 THEN "Unknown"
    ELSE LET b0 == At(payload, 0)
             hevc_fu == /\ Len(payload) >= 3
                        /\ Field(b0, 1, 6) = 49
                        /\ (Bit(At(payload, 2), 7) \/ Bit(At(payload, 2), 6))
             avc_type == Field(b0, 0, 5)
             avc_nri_nonzero == Field(b0, 5, 2) /= 0
         IN  IF hevc_fu THEN "Hevc"
             ELSE IF Field(b0, 0, 2) = 0 THEN "Av1"
             ELSE IF avc_type \in 24..29
                  THEN IF Len(payload) >= 2 /\ avc_nri_nonzero THEN "Avc" ELSE "Vp9"
             ELSE IF avc_type \in 1..23 /\ avc_nri_nonzero THEN "Avc"
             ELSE "Vp9"

\* --------------------------------------------------------------- analyze.rs
\* match (start, end) { ... } -> FrameBoundary
boundary(start, end) ==
    IF start /\ end THEN "StartEnd"
    ELSE IF start THEN "Start"
    ELSE IF end THEN "End"
    ELSE "None"

emit_end_only(fb) == [fb |-> fb, in_frame |-> fb /= "End"]

\* self.in_frame = !matches!(fb, FrameBoundary::End | FrameBoundary::StartEnd); fb
emit(fb) == [fb |-> fb, in_frame |-> ~(fb \in {"End", "StartEnd"})]

analyze_generic_always_start(in_frame, packet) ==
    [fb |-> boundary(TRUE, packet.marker), in_frame |-> ~packet.marker]

analyze_generic(in_frame, packet) ==
    LET start == ~in_frame
        end == packet.marker
    IN  [fb |-> boundary(start, end), in_frame |-> ~end]

analyze_avc(in_frame, packet) ==
    LET r == parse_avc_payload_header(packet.payload)
        kind == r.kind
    IN  IF ~r.ok THEN analyze_generic(in_frame, packet)
        ELSE CASE kind.tag \in {"FuA", "FuB"} ->
                    emit(boundary(kind.start /\ avc_vcl_type(kind.nal_type), packet.marker))
               [] kind.tag = "Single" ->
                    emit(boundary(avc_vcl_type(kind.nal_type) /\ ~in_frame, packet.marker))
               [] kind.tag \in {"StapA", "StapB", "Mtap16", "Mtap24"} ->
                    emit(boundary(~in_frame, packet.marker))
               [] OTHER -> emit(boundary(~in_frame, packet.marker))

analyze_hevc(in_frame, packet) ==
    LET r == parse_hevc_payload_header(packet.payload)
        kind == r.kind
    IN  IF ~r.ok THEN analyze_generic(in_frame, packet)
        ELSE CASE kind.tag = "Fu" ->
                    emit(boundary(kind.start /\ hevc_vcl_type(kind.nal_type), packet.marker))
               [] kind.tag = "Single" ->
                    emit(boundary(hevc_vcl_type(kind.nal_type) /\ ~in_frame, packet.marker))
               [] OTHER -> emit(boundary(~in_frame, packet.marker))

analyze_vp9_no_bits(in_frame, packet) ==
    LET r == Vp9PayloadDesc_parse(packet.payload)
    IN  IF ~r.ok THEN analyze_generic(in_frame, packet)
        ELSE emit(boundary(~in_frame, packet.marker))

analyze_vp9(in_frame, packet) ==
    LET r == Vp9PayloadDesc_parse(packet.payload)
    IN  IF ~r.ok THEN analyze_generic(in_frame, packet)
        ELSE emit(boundary(r.desc.b_bit \/ ~in_frame, r.desc.e_bit \/ packet.marker))

analyze_av1(in_frame, packet) ==
    LET r == parse_av1_payload_header(packet.payload)
    IN  IF ~r.ok THEN analyze_generic(in_frame, packet)
        ELSE emit(boundary(~in_frame, packet.marker))

\* FrameAnalyzer { codec: Option<Codec>, in_frame: bool }
FrameAnalyzer_new == [codec |-> None, in_frame |-> FALSE]

FrameAnalyzer_set_codec_ignored(an, c) == an

FrameAnalyzer_set_codec(an, c) == [an EXCEPT !.codec = Some(c)]

\* FrameAnalyzer::analyze: the analyzer after the call, the boundary returned,
\* and whether the call consulted guess_codec
analyze(an, packet) ==
    LET c == IF is_none(an.codec) THEN guess_codec(packet.payload) ELSE unwrap(an.codec)
        r == CASE c = "Avc" -> analyze_avc(an.in_frame, packet)
               [] c = "Hevc" -> analyze_hevc(an.in_frame, packet)
               [] c = "Vp9" -> analyze_vp9(an.in_frame, packet)
               [] c = "Av1" -> analyze_av1(an.in_frame, packet)
               [] OTHER -> analyze_generic(an.in_frame, packet)
    IN  [an |-> [codec |-> Some(c), in_frame |-> r.in_frame], fb |-> r.fb,
         guessed |-> is_none(an.codec)]

\* ------------------------------------------------------------ reassemble.rs
\* ReorderConfig::default
ReorderConfig_default ==
    [enable_reordering |-> TRUE, drop_incomplete_frames |-> TRUE,
     max_buffered_packets_per_frame |-> 2048]

\* HashMap / BTreeMap operations on functions
EmptyMap == [k \in {} |-> {}]
MapInsert(m, k, v) == [x \in (DOMAIN m) \cup {k} |-> IF x = k THEN v ELSE m[x]]
MapRemove_all(m, k) == EmptyMap
MapRemove_keep(m, k) == m
MapRemove(m, k) == [x \in (DOMAIN m) \ {k} |-> m[x]]

RECURSIVE iter_keys_desc(_)
iter_keys_desc(S) ==
    IF S = {} THEN <<>>
    ELSE LET m == CHOOSE x \in S : \A y \in S : x >= y
         IN  <<m>> \o iter_keys_desc(S \ {m})

\* BTreeMap<u16, _>::iter: the keys in ascending numeric order
RECURSIVE iter_keys(_)
iter_keys(S) ==
    IF S = {} THEN <<>>
    ELSE LET m == CHOOSE x \in S : \A y \in S : x <= y
         IN  <<m>> \o iter_keys(S \ {m})

\* FrameCollector::default
FrameCollector_default == [packets |-> EmptyMap, seen_marker |-> FALSE]

\* frame_ready_to_flush, Codec::Avc arm: some buffered packet is a Start
avc_start_all(entry) ==
    \A s \in DOMAIN entry.packets :
        LET r == parse_avc_payload_header(entry.packets[s].payload)
        IN  /\ r.ok
            /\ \/ r.kind.tag \in {"Single", "StapA", "StapB", "Mtap16", "Mtap24"}
               \/ r.kind.tag \in {"FuA", "FuB"} /\ r.kind.start

avc_start_buffered(entry) ==
    \E s \in DOMAIN entry.packets :
        LET r == parse_avc_payload_header(entry.packets[s].payload)
        IN  /\ r.ok
            /\ \/ r.kind.tag \in {"Single", "StapA", "StapB", "Mtap16", "Mtap24"}
               \/ r.kind.tag \in {"FuA", "FuB"} /\ r.kind.start

\* frame_ready_to_flush, Codec::Hevc arm
hevc_start_buffered(entry) ==
    \E s \in DOMAIN entry.packets :
        LET r == parse_hevc_payload_header(entry.packets[s].payload)
        IN  /\ r.ok
            /\ \/ r.kind.tag \in {"Single", "Ap", "Pacsi"}
               \/ r.kind.tag = "Fu" /\ r.kind.start

\* frame_ready_to_flush, Codec::Vp9 arm
vp9_start_buffered(entry) ==
    \E s \in DOMAIN entry.packets :
        LET r == Vp9PayloadDesc_parse(entry.packets[s].payload)
        IN  r.ok /\ r.desc.b_bit

codec_ready_marker_only(entry, c) == TRUE

codec_ready_av1_as_vp9(entry, c) ==
    CASE c = "Avc" -> avc_start_buffered(entry)
      [] c = "Hevc" -> hevc_start_buffered(entry)
      [] c \in {"Vp9", "Av1"} -> vp9_start_buffered(entry)
      [] OTHER -> TRUE

\* frame_ready_to_flush: match codec { ... }
codec_ready(entry, c) ==
    CASE c = "Avc" -> avc_start_buffered(entry)
      [] c = "Hevc" -> hevc_start_buffered(entry)
      [] c = "Vp9" -> vp9_start_buffered(entry)
      [] OTHER -> TRUE

\* FrameReassembler::frame_ready_to_flush
frame_ready_to_flush(fr, timestamp, c) ==
    IF timestamp \notin DOMAIN fr THEN FALSE
    ELSE IF ~fr[timestamp].seen_marker THEN FALSE
    ELSE codec_ready(fr[timestamp], c)

\* FrameReassembler::write_start_code
write_start_code(buf) == buf \o <<0, 0, 0, 1>>

aggregation_first_only(payload, i, out) ==
    IF i + 2 <= Len(payload)
    THEN LET size == At(payload, i) * 256 + At(payload, i + 1)
             j == i + 2
         IN  IF j + size > Len(payload) THEN out
             ELSE write_start_code(out) \o Slice(payload, j, j + size)
    ELSE out

\* the while loop of the StapA / Ap arms: (size, nalu) entries from offset i
RECURSIVE aggregation_loop(_, _, _)
aggregation_loop(payload, i, out) ==
    IF i + 2 <= Len(payload)
    THEN LET size == At(payload, i) * 256 + At(payload, i + 1)
             j == i + 2
         IN  IF j + size > Len(payload) THEN out
             ELSE aggregation_loop(payload, j + size,
                                   write_start_code(out) \o Slice(payload, j, j + size))
    ELSE out

avc_fu_nal_hdr_indicator(fu_indicator, nal_type) == fu_indicator

\* the FU start arm of append_avc_payload:
\* (fu_indicator & 0xE0) | (nal_type & 0x1F)
avc_fu_nal_hdr(fu_indicator, nal_type) ==
    Field(fu_indicator, 5, 3) * 32 + Field(nal_type, 0, 5)

fu_missing_start_ignored(start, fu_open) == FALSE

\* the FU arms' test "else if !*fu_open": a continuation with no FU open
fu_missing_start(start, fu_open) == ~start /\ ~fu_open

\* FrameReassembler::append_avc_payload: out, fu_open and incomplete after the call
append_avc_payload(payload, out, fu_open, incomplete) ==
    LET r == parse_avc_payload_header(payload)
        kind == r.kind
        same(o) == [out |-> o, fu_open |-> fu_open, incomplete |-> incomplete]
    IN  IF r.ok
        THEN CASE kind.tag = "Single" -> same(write_start_code(out) \o SliceFrom(payload, 0))
               [] kind.tag = "StapA" -> same(aggregation_loop(payload, 1, out))
               [] kind.tag \in {"FuA", "FuB"} ->
                    IF kind.start
                    THEN LET fu_indicator == At(payload, 0)
                             nal_hdr == avc_fu_nal_hdr(fu_indicator, kind.nal_type)
                         IN  [out |-> (write_start_code(out) \o <<nal_hdr>>)
                                       \o SliceFrom(payload, r.off),
                              fu_open |-> TRUE, incomplete |-> incomplete]
                    ELSE IF fu_missing_start(kind.start, fu_open)
                         THEN [out |-> out, fu_open |-> fu_open, incomplete |-> TRUE]
                         ELSE same(out \o SliceFrom(payload, r.off))
               [] OTHER -> same(write_start_code(out) \o payload)
        ELSE same(out \o payload)

\* FrameReassembler::append_hevc_payload
append_hevc_payload(payload, out, fu_open, incomplete) ==
    LET r == parse_hevc_payload_header(payload)
        kind == r.kind
        same(o) == [out |-> o, fu_open |-> fu_open, incomplete |-> incomplete]
    IN  IF r.ok
        THEN CASE kind.tag \in {"Single", "Pacsi", "Unknown"} ->
                    same(write_start_code(out) \o SliceFrom(payload, 0))
               [] kind.tag = "Ap" -> same(aggregation_loop(payload, 2, out))
               [] OTHER ->
                    IF kind.start
                    THEN LET b0 == At(payload, 0)
                             b1 == At(payload, 1)
                             new_b0 == Field(b0, 7, 1) * 128 + Field(b0, 0, 1)
                                       + Field(kind.nal_type, 0, 6) * 2
                         IN  [out |-> (write_start_code(out) \o <<new_b0, b1>>)
                                       \o SliceFrom(payload, r.off),
                              fu_open |-> TRUE, incomplete |-> incomplete]
                    ELSE IF fu_missing_start(kind.start, fu_open)
                         THEN [out |-> out, fu_open |-> fu_open, incomplete |-> TRUE]
                         ELSE same(out \o SliceFrom(payload, r.off))
        ELSE same(out \o payload)

append_vp9_strip_one(payload, out) ==
    IF Len(payload) = 0 THEN out ELSE out \o SliceFrom(payload, 1)

\* FrameReassembler::append_vp9_payload
append_vp9_payload(payload, out) ==
    LET r == Vp9PayloadDesc_parse(payload)
    IN  IF r.ok THEN out \o SliceFrom(payload, r.off) ELSE out \o payload

\* FrameReassembler::append_av1_payload
append_av1_payload(payload, out) ==
    LET r == parse_av1_payload_header(payload)
    IN  IF r.ok THEN out \o SliceFrom(payload, r.off) ELSE out \o payload

\* the bounds checks Rust makes on payload[i] and on &payload[off..]
index_in_range(payload, i) == i < Len(payload)
slice_from_in_range(payload, off) == off <= Len(payload)

\* the header length a codec's depacketizer returns for a payload it accepts
header_len(c, payload) ==
    CASE c = "Avc" -> parse_avc_payload_header(payload)
      [] c = "Hevc" -> parse_hevc_payload_header(payload)
      [] c = "Vp9" -> Vp9PayloadDesc_parse(payload)
      [] c = "Av1" -> parse_av1_payload_header(payload)
      [] OTHER -> [ok |-> FALSE, off |-> 0]

\* one append_*_payload call (or the raw append for Unknown): TRUE iff every
\* unguarded index and slice it evaluates lies inside the payload
append_in_range(c, payload, fu_open) ==
    LET r == header_len(c, payload)
    IN  r.ok =>
        CASE c = "Avc" /\ r.kind.tag \in {"FuA", "FuB"} ->
                IF r.kind.start
                THEN index_in_range(payload, 0) /\ slice_from_in_range(payload, r.off)
                ELSE fu_open => slice_from_in_range(payload, r.off)
          [] c = "Hevc" /\ r.kind.tag = "Fu" ->
                IF r.kind.start
                THEN /\ index_in_range(payload, 0) /\ index_in_range(payload, 1)
                     /\ slice_from_in_range(payload, r.off)
                ELSE fu_open => slice_from_in_range(payload, r.off)
          [] c \in {"Vp9", "Av1"} -> slice_from_in_range(payload, r.off)
          [] OTHER -> TRUE

detect_gaps_skip_one(keys) ==
    \E i \in 2..Len(keys) : wrapping_sub(keys[i], keys[i - 1]) > 2

\* the gap detection loop of assemble_frame over the ascending keys
detect_gaps(keys) ==
    \E i \in 2..Len(keys) : wrapping_sub(keys[i], keys[i - 1]) /= 1

\* the per-packet loop of assemble_frame; st.src records, for every byte of
\* st.out, the sequence number of the packet whose processing wrote it, and
\* st.in_range whether every payload access so far was inside its payload
RECURSIVE assemble_loop(_, _, _, _, _)
assemble_loop(packets, keys, i, c, st) ==
    IF i > Len(keys) THEN st
    ELSE LET payload == packets[keys[i]].payload
             a == CASE c = "Avc" ->
                        LET r == append_avc_payload(payload, st.out, st.fu_open_avc,
                                                    st.incomplete)
                        IN  [st EXCEPT !.out = r.out, !.fu_open_avc = r.fu_open,
                                       !.incomplete = r.incomplete]
                    [] c = "Hevc" ->
                        LET r == append_hevc_payload(payload, st.out, st.fu_open_hevc,
                                                     st.incomplete)
                        IN  [st EXCEPT !.out = r.out, !.fu_open_hevc = r.fu_open,
                                       !.incomplete = r.incomplete]
                    [] c = "Vp9" -> [st EXCEPT !.out = append_vp9_payload(payload, st.out)]
                    [] c = "Av1" -> [st EXCEPT !.out = append_av1_payload(payload, st.out)]
                    [] OTHER -> [st EXCEPT !.out = st.out \o payload]
             n == Len(a.out) - Len(st.out)
             fu_open == IF c = "Hevc" THEN st.fu_open_hevc ELSE st.fu_open_avc
         IN  assemble_loop(packets, keys, i + 1, c,
                           [a EXCEPT !.src = st.src \o [k \in 1..n |-> keys[i]],
                                     !.in_range = st.in_range
                                                  /\ append_in_range(c, payload, fu_open)])

assemble_frame_always_drop(fr, timestamp, codec_opt, cfg) ==
    LET c == unwrap_or(codec_opt, "Unknown")
    IN  IF timestamp \notin DOMAIN fr
        THEN [ret |-> None, incomplete |-> FALSE, src |-> <<>>, in_range |-> TRUE]
        ELSE LET entry == fr[timestamp]
                 keys == iter_keys(DOMAIN entry.packets)
                 st == assemble_loop(entry.packets, keys, 1, c,
                                     [out |-> <<>>, fu_open_avc |-> FALSE,
                                      fu_open_hevc |-> FALSE,
                                      incomplete |-> detect_gaps(keys), src |-> <<>>,
                                      in_range |-> TRUE])
             IN  [ret |-> IF st.incomplete THEN None ELSE Some(st.out),
                  incomplete |-> st.incomplete, src |-> st.src,
                  in_range |-> st.in_range]

\* FrameReassembler::assemble_frame: the returned Option, with the incomplete
\* flag and the byte provenance of the assembled output
assemble_frame(fr, timestamp, codec_opt, cfg) ==
    LET c == unwrap_or(codec_opt, "Unknown")
    IN  IF timestamp \notin DOMAIN fr
        THEN [ret |-> None, incomplete |-> FALSE, src |-> <<>>, in_range |-> TRUE]
        ELSE LET entry == fr[timestamp]
                 keys == iter_keys(DOMAIN entry.packets)
                 st == assemble_loop(entry.packets, keys, 1, c,
                                     [out |-> <<>>, fu_open_avc |-> FALSE,
                                      fu_open_hevc |-> FALSE,
                                      incomplete |-> detect_gaps(keys), src |-> <<>>,
                                      in_range |-> TRUE])
             IN  [ret |-> IF cfg.drop_incomplete_frames /\ st.incomplete
                          THEN None ELSE Some(st.out),
                  incomplete |-> st.incomplete, src |-> st.src,
                  in_range |-> st.in_range]

\* ------------------------------------------------------------------- inputs
\* Payloads pushed by the environment.  Each is read differently by the four
\* depacketizers (AVC kind / HEVC kind / VP9 descriptor):
Empty == <<>>                      \* error            / error  / error
AvcFuStart == <<124, 133, 170>>    \* 7C 85 AA: FU-A S=1 type 5 / Single / B=1
AvcFuMid == <<124, 5, 204>>        \* 7C 05 CC: FU-A S=0        / Single / B=1
AvcFuShort == <<124>>              \* 7C: FU-A without header: error / error / B=1
HevcFuStart == <<98, 1, 147, 222>> \* 62 01 93 DE: Single 2 / FU S=1 type 19 / B=0
HevcFuMid == <<98, 1, 19, 173>>    \* 62 01 13 AD: Single 2 / FU S=0 / B=0
StapA == <<24, 0, 1, 97>>          \* 18 00 01 61: STAP-A, one NAL / Single / B=1
StapAEmpty == <<24>>               \* 18: STAP-A without entries / error / B=1
HevcAp == <<96, 1, 0, 1, 38>>      \* 60 01 00 01 26: Unknown(0) / AP, one NAL / B=0
Vp9Short == <<128>>                \* 80: Unknown(0) / error / I=1 without id: error

AvcFuBStart == <<93, 129, 187>>    \* 5D 81 BB: FU-B S=1 type 1 / Single / B=1
AvcFuBMid == <<93, 1, 221>>        \* 5D 01 DD: FU-B S=0        / Single / B=1

Payloads == {Empty, AvcFuStart, AvcFuMid, AvcFuShort, HevcFuStart, HevcFuMid,
             StapA, StapAEmpty, HevcAp, Vp9Short}

\* A packet as push_packet and analyze read it: header fields and payload
Pkts(seqs, tss, ssrcs, payloads) ==
    [seq : seqs, ts : tss, ssrc : ssrcs, marker : BOOLEAN, payload : payloads]

Cfg(reorder, drop, max) ==
    [enable_reordering |-> reorder, drop_incomplete_frames |-> drop,
     max_buffered_packets_per_frame |-> max]

\* Spec: every operation of the reassembler, one stream, one timestamp
Packets == Pkts({0, 1, 2}, {1}, {1}, {AvcFuStart, AvcFuMid, HevcFuStart, HevcFuMid})
Configs == {ReorderConfig_default, Cfg(TRUE, TRUE, 1), Cfg(FALSE, FALSE, 2)}

\* SpecSeq: sequence numbers around the 16-bit wrap, gaps, duplicates, the cap
PacketsSeq == Pkts({65535, 0, 1, 2}, {1}, {1}, {AvcFuStart, AvcFuMid, Empty})
CodecsSeq == {"Avc", "Unknown"}
ConfigsSeq == {ReorderConfig_default, Cfg(TRUE, FALSE, 2048), Cfg(TRUE, TRUE, 2),
               Cfg(TRUE, TRUE, 1), Cfg(TRUE, FALSE, 2), Cfg(TRUE, FALSE, 0)}

\* SpecPayload: every payload under every codec
PacketsPayload == Pkts({0, 1}, {1}, {1}, Payloads)
ConfigsPayload == {ReorderConfig_default, Cfg(TRUE, FALSE, 2048)}

\* SpecSsrc: two streams (SSRCs) and two frames (timestamps)
PacketsSsrc == Pkts({0, 1}, {1, 2}, {1, 2}, {AvcFuStart, AvcFuMid, Empty})
CodecsSsrc == {"Avc", "Unknown"}

\* SpecFu: AVC frames made of FU-A and FU-B packets
PacketsFu == Pkts({0, 1, 2}, {1}, {1}, {AvcFuStart, AvcFuMid, AvcFuBStart, AvcFuBMid})
ConfigsFu == {ReorderConfig_default, Cfg(TRUE, FALSE, 2048)}

\* SpecAgg: single-packet frames made of one AVC STAP-A or one HEVC AP whose
\* entries area is any byte string over AggBytes of up to MaxAggTail bytes,
\* and the two-entry STAP-A of the reassemble_h264_stap_a test
AggBytes == {0, 1, 2}
AggTails == UNION {[1..k -> AggBytes] : k \in 0..MaxAggTail}
StapATest == <<24, 0, 2, 97, 1, 0, 3, 101, 2, 3>>
PayloadsAgg == {<<24>> \o t : t \in AggTails} \cup {<<96, 1>> \o t : t \in AggTails}
               \cup {StapATest}
PacketsAgg == {p \in Pkts({0}, {1}, {1}, PayloadsAgg) : p.marker}

\* SpecVp9: VP9 descriptors with and without picture id, AV1 and raw payloads
Vp9Plain == <<8, 1>>                 \* 08 01: B=1, no picture id
Vp9Pid7 == <<136, 5, 9>>             \* 88 05 09: I=1 B=1, 7-bit picture id
Vp9Pid15 == <<128, 133, 7, 10>>      \* 80 85 07 0A: I=1, 15-bit picture id
Vp9Pid15Short == <<128, 133>>        \* 80 85: I=1 M=1, second id byte missing
PayloadsVp9 == {Vp9Plain, Vp9Pid7, Vp9Pid15, Vp9Pid15Short, Vp9Short, Empty}
PacketsVp9 == Pkts({0, 1}, {1}, {1}, PayloadsVp9)
CodecsVp9 == {"Vp9", "Av1", "Unknown"}
ConfigsVp9 == {ReorderConfig_default, Cfg(TRUE, FALSE, 2048)}

\* SpecParse: buffers given to RtpPacket::parse: a first byte of every version,
\* with and without padding, extension and one CSRC; marker set or clear; fixed
\* sequence number, timestamp and SSRC; then any byte string over TailBytes of
\* up to MaxBufTail bytes; and every proper prefix of a 12-byte header
FirstBytes == {128, 160, 144, 176, 129, 161, 0, 32, 64, 192, 224}
SecondBytes == {96, 224}
TailBytes == {0, 1, 2}
BufTails == UNION {[1..k -> TailBytes] : k \in 0..MaxBufTail}
FixedHeader(b0, b1) == <<b0, b1, 0, 7, 0, 0, 0, 1, 0, 0, 0, 1>>
Buffers ==
    {FixedHeader(b0, b1) \o t : b0 \in FirstBytes, b1 \in SecondBytes, t \in BufTails}
    \cup {SubSeq(FixedHeader(b0, 96), 1, k) : b0 \in FirstBytes, k \in 0..11}

\* SpecGuess: a fresh FrameAnalyzer given one payload of 0 to 3 bytes with
\* every first byte, and a third byte with the S bit, the E bit or neither
PayloadsGuess ==
    {Empty} \cup {<<b0>> : b0 \in 0..255} \cup {<<b0, 1>> : b0 \in 0..255}
    \cup {<<b0, 1, b2>> : b0 \in 0..255, b2 \in {0, 64, 128}}
PacketsGuess == Pkts({0}, {1}, {1}, PayloadsGuess)

\* SpecAnalyzer: a FrameAnalyzer fed every payload, with and without marker,
\* and single, fragmented and aggregated NAL units of VCL and non-VCL types
AvcIdr == <<101, 1>>               \* 65 01: AVC single, type 5 (VCL)
AvcSps == <<103, 1>>               \* 67 01: AVC single, type 7 (non-VCL)
AvcFuSps == <<124, 135, 1>>        \* 7C 87 01: FU-A S=1, original type 7
AvcFuEnd == <<124, 69, 238>>       \* 7C 45 EE: FU-A E=1, original type 5
AvcStapB == <<121, 0, 0>>          \* 79 00 00: STAP-B
HevcSlice == <<2, 1, 9>>           \* 02 01 09: HEVC single, type 1 (VCL)
HevcVps == <<64, 1, 9>>            \* 40 01 09: HEVC single, type 32 (non-VCL)
HevcFuVps == <<98, 1, 160>>        \* 62 01 A0: HEVC FU S=1, original type 32
HevcFuEnd == <<98, 1, 83>>         \* 62 01 53: HEVC FU E=1, original type 19
HevcPacsi == <<100, 1, 0>>         \* 64 01 00: HEVC PACSI (type 50)
PayloadsBoundary == {AvcIdr, AvcSps, AvcFuSps, AvcFuEnd, AvcStapB, AvcFuBStart,
                     HevcSlice, HevcVps, HevcFuVps, HevcFuEnd, HevcPacsi,
                     Vp9Plain, Vp9Pid7, Vp9Pid15, Vp9Pid15Short}
PacketsAnalyzer == Pkts({0}, {1}, {1}, Payloads \cup PayloadsBoundary)

\* -------------------------------------------------------------------- state
VARIABLES
    analyzer,       \* FrameReassembler.analyzer (SpecAnalyzer: a FrameAnalyzer)
    current_ssrc,   \* FrameReassembler.current_ssrc : Option<u32>
    codec,          \* FrameReassembler.codec : Option<Codec>
    frames,         \* FrameReassembler.frames : timestamp -> FrameCollector
    config,         \* FrameReassembler.config : ReorderConfig
    pkt,            \* history: Some(packet) of the last call if it was a push/analyze
    ret,            \* history: Some(value returned by that push_packet)
    asm,            \* history: Some(assembly done by that push_packet)
    fb,             \* history: Some(boundary returned by the last analyze call)
    npush,          \* history: number of push_packet / analyze calls so far
    epoch,          \* history: number of SSRC changes seen by push_packet
    origin,         \* history: <<timestamp, seq>> of a buffered packet -> epoch of its push
    nguess,         \* history: number of analyze calls that consulted guess_codec
    evicted,        \* history: sequence numbers the last push's overflow clear discarded
    nflush,         \* history: number of collectors assembled and removed so far
    buf,            \* history: Some(buffer) last given to RtpPacket::parse
    parsed,         \* history: Some(result of that RtpPacket::parse call)
    was_in_frame,   \* history: Some(in_frame before the last stand-alone analyze call)
    start_open,     \* history: a stand-alone analyze call returned Start and none
                    \* since has returned End or StartEnd
    marked,         \* history: the <<timestamp, seq>> pushed with the marker bit into a
                    \* collector that still exists
    arrival         \* history: None, or Some of the frame whose packets are being
                    \* pushed once each: its length n, the seqs sent so far, and the
                    \* frames push_packet has returned

vars == <<analyzer, current_ssrc, codec, frames, config, pkt, ret, asm, fb, npush,
          epoch, origin, nguess, evicted, nflush, buf, parsed, was_in_frame,
          start_open, marked, arrival>>

\* FrameReassembler::new (Default): the state after construction
Init ==
    /\ analyzer = FrameAnalyzer_new
    /\ current_ssrc = None
    /\ codec = None
    /\ frames = EmptyMap
    /\ config = ReorderConfig_default
    /\ pkt = None
    /\ ret = None
    /\ asm = None
    /\ fb = None
    /\ npush = 0
    /\ epoch = 0
    /\ origin = EmptyMap
    /\ nguess = 0
    /\ evicted = {}
    /\ nflush = 0
    /\ buf = None
    /\ parsed = None
    /\ was_in_frame = None
    /\ start_open = FALSE
    /\ marked = {}
    /\ arrival = None

\* the <<timestamp, seq>> pairs buffered in a frame map
Keys(fr) == UNION {{<<t, s>> : s \in DOMAIN fr[t].packets} : t \in DOMAIN fr}

\* push_packet, lines 73-82: the collectors and the analyzer after the SSRC check
ssrc_changed(cur, packet) == is_some(cur) /\ unwrap(cur) /= packet.ssrc
frames_after_ssrc_keep(fr, cur, packet) == fr

analyzer_after_ssrc_fresh(an, cur, c, packet) ==
    IF ssrc_changed(cur, packet) THEN FrameAnalyzer_new ELSE an

frames_after_ssrc(fr, cur, packet) ==
    IF ssrc_changed(cur, packet) THEN EmptyMap ELSE fr
analyzer_after_ssrc(an, cur, c, packet) ==
    IF ssrc_changed(cur, packet)
    THEN IF is_some(c) THEN FrameAnalyzer_set_codec(FrameAnalyzer_new, unwrap(c))
         ELSE FrameAnalyzer_new
    ELSE an

\* push_packet, line 93: the test that triggers entry.packets.clear()
collector_full(entry, cfg) ==
    Cardinality(DOMAIN entry.packets) >= cfg.max_buffered_packets_per_frame

insert_packet_above_cap(fr, packet, cfg) ==
    LET entry == IF packet.ts \in DOMAIN fr THEN fr[packet.ts] ELSE FrameCollector_default
        kept == IF Cardinality(DOMAIN entry.packets) > cfg.max_buffered_packets_per_frame
                THEN EmptyMap ELSE entry.packets
        owned == [seq |-> packet.seq, payload |-> packet.payload]
    IN  [packets |-> MapInsert(kept, owned.seq, owned),
         seen_marker |-> entry.seen_marker \/ packet.marker]

insert_packet_in_order(fr, packet, cfg) ==
    LET entry == IF packet.ts \in DOMAIN fr THEN fr[packet.ts] ELSE FrameCollector_default
        late == ~cfg.enable_reordering
                /\ \E s \in DOMAIN entry.packets : s > packet.seq
        kept == IF collector_full(entry, cfg) \/ late THEN EmptyMap ELSE entry.packets
        owned == [seq |-> packet.seq, payload |-> packet.payload]
    IN  [packets |-> MapInsert(kept, owned.seq, owned),
         seen_marker |-> entry.seen_marker \/ packet.marker]

insert_packet_then_clear(fr, packet, cfg) ==
    LET entry == IF packet.ts \in DOMAIN fr THEN fr[packet.ts] ELSE FrameCollector_default
        owned == [seq |-> packet.seq, payload |-> packet.payload]
        all == MapInsert(entry.packets, owned.seq, owned)
    IN  [packets |-> IF Cardinality(DOMAIN all) > cfg.max_buffered_packets_per_frame
                     THEN EmptyMap ELSE all,
         seen_marker |-> entry.seen_marker \/ packet.marker]

\* push_packet, lines 91-100: the collector of the packet's timestamp after insertion
insert_packet(fr, packet, cfg) ==
    LET entry == IF packet.ts \in DOMAIN fr THEN fr[packet.ts] ELSE FrameCollector_default
        kept == IF collector_full(entry, cfg) THEN EmptyMap ELSE entry.packets
        owned == [seq |-> packet.seq, payload |-> packet.payload]
    IN  [packets |-> MapInsert(kept, owned.seq, owned),
         seen_marker |-> entry.seen_marker \/ packet.marker]

\* FrameReassembler::set_codec
SetCodec(c) ==
    /\ codec' = Some(c)
    /\ analyzer' = FrameAnalyzer_set_codec(analyzer, c)
    /\ pkt' = None /\ ret' = None /\ asm' = None /\ evicted' = {}
    /\ UNCHANGED <<current_ssrc, frames, config, fb, npush, epoch, origin, nguess,
                   nflush, buf, parsed, was_in_frame, start_open,
                   marked, arrival>>

\* FrameReassembler::set_reorder_config
SetReorderConfig(cfg) ==
    /\ config' = cfg
    /\ pkt' = None /\ ret' = None /\ asm' = None /\ evicted' = {}
    /\ UNCHANGED <<analyzer, current_ssrc, codec, frames, fb, npush, epoch, origin,
                   nguess, nflush, buf, parsed, was_in_frame, start_open,
                   marked, arrival>>

\* FrameReassembler::push_packet as a function of the reassembler's fields:
\* the fields after the call, the value returned, and what the call did
push_packet(fr, cur, an, c, cfg, packet) ==
    LET frames0 == frames_after_ssrc(fr, cur, packet)
        an0 == analyzer_after_ssrc(an, cur, c, packet)
        a == analyze(an0, packet)
        codec1 == IF is_none(c) THEN a.an.codec ELSE c
        ts == packet.ts
        entry == insert_packet(frames0, packet, cfg)
        frames1 == MapInsert(frames0, ts, entry)
        flush == entry.seen_marker
                 /\ frame_ready_to_flush(frames1, ts, unwrap_or(codec1, "Unknown"))
        out == IF flush THEN assemble_frame(frames1, ts, codec1, cfg)
               ELSE [ret |-> None, incomplete |-> FALSE, src |-> <<>>, in_range |-> TRUE]
    IN  [current_ssrc |-> Some(packet.ssrc), analyzer |-> a.an, fb |-> a.fb,
         guessed |-> a.guessed, codec |-> codec1,
         frames |-> IF flush THEN MapRemove(frames1, ts) ELSE frames1,
         ret |-> out.ret,
         flush |-> flush, entry |-> entry, out |-> out,
         frames0 |-> frames0, frames1 |-> frames1]

\* FrameReassembler::push_packet
PushPacket(packet) ==
    \E r \in {push_packet(frames, current_ssrc, analyzer, codec, config, packet)} :
       LET ts == packet.ts
           epoch1 == IF ssrc_changed(current_ssrc, packet) THEN epoch + 1 ELSE epoch
           origin1 == [k \in Keys(r.frames1) |->
                          IF k = <<ts, packet.seq>> THEN epoch1 ELSE origin[k]]
           marked1 == {k \in marked : k[1] \in DOMAIN r.frames0}
                      \cup (IF packet.marker THEN {<<ts, packet.seq>>} ELSE {})
       IN  /\ current_ssrc' = r.current_ssrc
           /\ analyzer' = r.analyzer
           /\ fb' = Some(r.fb)
           /\ codec' = r.codec
           /\ frames' = r.frames
           /\ ret' = Some(r.ret)
           /\ asm' = IF r.flush
                     THEN Some([timestamp |-> ts, entry |-> r.entry,
                                incomplete |-> r.out.incomplete, src |-> r.out.src,
                                in_range |-> r.out.in_range,
                                marked |-> {k[2] : k \in {m \in marked1 : m[1] = ts}},
                                origin |-> [s \in DOMAIN r.entry.packets |->
                                               origin1[<<ts, s>>]]])
                     ELSE None
           /\ epoch' = epoch1
           /\ origin' = [k \in Keys(frames') |-> origin1[k]]
           /\ pkt' = Some(packet)
           /\ npush' = npush + 1
           /\ nguess' = IF r.guessed THEN nguess + 1 ELSE nguess
           /\ nflush' = IF r.flush THEN nflush + 1 ELSE nflush
           /\ evicted' = IF ts \in DOMAIN r.frames0 /\ collector_full(r.frames0[ts], config)
                         THEN DOMAIN r.frames0[ts].packets ELSE {}
           /\ marked' = {k \in marked1 : k[1] \in DOMAIN frames'}
           /\ arrival' = IF is_none(arrival) THEN None
                         ELSE Some([n |-> unwrap(arrival).n,
                                    sent |-> unwrap(arrival).sent \cup {packet.seq},
                                    emitted |-> IF is_some(r.ret)
                                                THEN Append(unwrap(arrival).emitted,
                                                            unwrap(r.ret))
                                                ELSE unwrap(arrival).emitted])
           /\ UNCHANGED <<config, buf, parsed, was_in_frame, start_open>>

\* the reassembler after new(), an optional set_reorder_config and an
\* optional set_codec, before the first packet
Configured(cs, cfgs) ==
    /\ codec \in {None} \cup {Some(c) : c \in cs}
    /\ analyzer = IF is_none(codec) THEN FrameAnalyzer_new
                  ELSE FrameAnalyzer_set_codec(FrameAnalyzer_new, unwrap(codec))
    /\ config \in cfgs
    /\ current_ssrc = None
    /\ frames = EmptyMap
    /\ pkt = None /\ ret = None /\ asm = None /\ fb = None
    /\ npush = 0 /\ epoch = 0 /\ origin = EmptyMap /\ nguess = 0 /\ evicted = {}
    /\ nflush = 0 /\ buf = None /\ parsed = None
    /\ was_in_frame = None /\ start_open = FALSE /\ marked = {}
    /\ arrival = None

\* RtpPacket::parse applied to a received buffer
ParseBuffer(buffer) ==
    /\ buf' = Some(buffer)
    /\ parsed' = Some(RtpPacket_parse(buffer))
    /\ UNCHANGED <<analyzer, current_ssrc, codec, frames, config, pkt, ret, asm, fb,
                   npush, epoch, origin, nguess, evicted, nflush, was_in_frame,
                   start_open, marked, arrival>>

\* FrameAnalyzer::set_codec on a stand-alone analyzer
AnalyzerSetCodec(c) ==
    /\ analyzer' = FrameAnalyzer_set_codec(analyzer, c)
    /\ pkt' = None
    /\ UNCHANGED <<current_ssrc, codec, frames, config, ret, asm, fb, npush, epoch,
                   origin, nguess, evicted, nflush, buf, parsed, was_in_frame,
                   start_open, marked, arrival>>

\* FrameAnalyzer::analyze on a stand-alone analyzer
Analyze(packet) ==
    /\ analyzer' = analyze(analyzer, packet).an
    /\ fb' = Some(analyze(analyzer, packet).fb)
    /\ pkt' = Some(packet)
    /\ nguess' = IF analyze(analyzer, packet).guessed THEN nguess + 1 ELSE nguess
    /\ was_in_frame' = Some(analyzer.in_frame)
    /\ start_open' = CASE analyze(analyzer, packet).fb = "Start" -> TRUE
                        [] analyze(analyzer, packet).fb \in {"End", "StartEnd"} -> FALSE
                        [] OTHER -> start_open
    /\ UNCHANGED <<current_ssrc, codec, frames, config, ret, asm, npush, epoch, origin,
                   evicted, nflush, buf, parsed, marked,
                   arrival>>

Next ==
    \/ \E packet \in Packets : npush < MaxPushes /\ PushPacket(packet)
    \/ \E c \in Codecs : SetCodec(c)
    \/ \E cfg \in Configs : SetReorderConfig(cfg)

Spec == Init /\ [][Next]_vars

InitSeq == Configured(CodecsSeq, ConfigsSeq)
NextSeq == \E packet \in PacketsSeq : npush < MaxPushesSeq /\ PushPacket(packet)
SpecSeq == InitSeq /\ [][NextSeq]_vars

InitPayload == Configured(Codecs, ConfigsPayload)
NextPayload == \E packet \in PacketsPayload : npush < MaxPushesPayload /\ PushPacket(packet)
SpecPayload == InitPayload /\ [][NextPayload]_vars

InitSsrc == Configured(CodecsSsrc, {ReorderConfig_default})
NextSsrc == \E packet \in PacketsSsrc : npush < MaxPushesSsrc /\ PushPacket(packet)
SpecSsrc == InitSsrc /\ [][NextSsrc]_vars

InitFu == Configured({"Avc"}, ConfigsFu)
NextFu == \E packet \in PacketsFu : npush < MaxPushesFu /\ PushPacket(packet)
SpecFu == InitFu /\ [][NextFu]_vars

InitAgg == Configured({"Avc", "Hevc"}, {ReorderConfig_default})
NextAgg == \E packet \in PacketsAgg : npush < MaxPushesAgg /\ PushPacket(packet)
SpecAgg == InitAgg /\ [][NextAgg]_vars

InitVp9 == Configured(CodecsVp9, ConfigsVp9)
NextVp9 == \E packet \in PacketsVp9 : npush < MaxPushesVp9 /\ PushPacket(packet)
SpecVp9 == InitVp9 /\ [][NextVp9]_vars

\* RtpPacket::parse keeps no state: each behaviour parses one buffer
NextParse == is_none(buf) /\ \E buffer \in Buffers : ParseBuffer(buffer)
SpecParse == Init /\ [][NextParse]_vars

\* guess_codec is consulted only while the analyzer has no codec
NextGuess == is_none(analyzer.codec) /\ \E packet \in PacketsGuess : Analyze(packet)
SpecGuess == Init /\ [][NextGuess]_vars

\* SpecCodec: set_codec and push_packet interleaved, two streams (SSRCs), one
\* payload for each codec the guesser can return
Vp9Guessed == <<129, 1>>           \* 81 01: guessed VP9 (type 1, NRI 0)
PayloadsCodec == {Empty, AvcFuStart, HevcFuStart, AvcIdr, Vp9Guessed}
PacketsCodec == Pkts({0}, {1}, {1, 2}, PayloadsCodec)
NextCodec ==
    \/ \E packet \in PacketsCodec : npush < MaxPushesCodec /\ PushPacket(packet)
    \/ \E c \in Codecs : SetCodec(c)
SpecCodec == Init /\ [][NextCodec]_vars

\* SpecOrder: one AVC frame of n FU-A packets (type 5) with the seqs 0..n-1, S
\* on the lowest, E and the marker on the highest, body byte 16 + seq, each
\* pushed once in any arrival order under the default configuration
FuOf(k, n) ==
    [seq |-> k, ts |-> 1, ssrc |-> 1, marker |-> (k = n - 1),
     payload |-> <<124,
                   (IF k = 0 THEN 128 ELSE 0) + (IF k = n - 1 THEN 64 ELSE 0) + 5,
                   16 + k>>]
InitOrder ==
    \E n \in 2..MaxFrameLen :
       /\ codec = Some("Avc")
       /\ analyzer = FrameAnalyzer_set_codec(FrameAnalyzer_new, "Avc")
       /\ config = ReorderConfig_default
       /\ current_ssrc = None
       /\ frames = EmptyMap
       /\ pkt = None /\ ret = None /\ asm = None /\ fb = None
       /\ npush = 0 /\ epoch = 0 /\ origin = EmptyMap /\ nguess = 0 /\ evicted = {}
       /\ nflush = 0 /\ buf = None /\ parsed = None
       /\ was_in_frame = None /\ start_open = FALSE /\ marked = {}
       /\ arrival = Some([n |-> n, sent |-> {}, emitted |-> <<>>])
NextOrder ==
    \E k \in 0..(unwrap(arrival).n - 1) :
       k \notin unwrap(arrival).sent /\ PushPacket(FuOf(k, unwrap(arrival).n))
SpecOrder == InitOrder /\ [][NextOrder]_vars

\* SpecBracket: a FrameAnalyzer, new or given the codec AV1 or Unknown at
\* creation, whose codec is then never set again
InitBracket ==
    /\ \/ Init
       \/ \E c \in {"Av1", "Unknown"} :
              Configured({c}, {ReorderConfig_default}) /\ is_some(codec)
NextBracket == \E packet \in PacketsAnalyzer : Analyze(packet)
SpecBracket == InitBracket /\ [][NextBracket]_vars

NextAnalyzer ==
    \/ \E packet \in PacketsAnalyzer : Analyze(packet)
    \/ \E c \in Codecs : AnalyzerSetCodec(c)
SpecAnalyzer == Init /\ [][NextAnalyzer]_vars

\* ------------------------------------------------------------------- claims
\* what the last push_packet observed
Pushed == is_some(pkt) /\ is_some(ret)
LastPkt == unwrap(pkt)
Assembled == is_some(asm)
Asm == unwrap(asm)
Returned == is_some(ret) /\ is_some(unwrap(ret))
Bytes == unwrap(unwrap(ret))
AsmSeqs == DOMAIN Asm.entry.packets

\* C1: after every FrameAnalyzer::analyze call, whatever the codec and the
\* payload, in_frame is true iff the boundary that call returned was None or Start.
C1_AnalyzerBalance ==
    is_some(fb) => (analyzer.in_frame <=> unwrap(fb) \in {"None", "Start"})

\* C1 witness: an AVC analyzer fell back to the generic rule on a payload its
\* depacketizer rejects while in a frame, returned None and stayed in the frame.
C1_Witness ==
    /\ is_some(fb) /\ is_some(pkt)
    /\ analyzer.codec = Some("Avc")
    /\ LastPkt.payload = AvcFuShort
    /\ unwrap(fb) = "None"
    /\ analyzer.in_frame

\* C2: in every frame push_packet returns, the bytes appear in ascending
\* sequence-number order of the buffered packets that contributed them, whatever
\* the order the packets were pushed in (one provenance entry per output byte).
C2_OutputSeqOrder ==
    Returned =>
        /\ Len(Asm.src) = Len(Bytes)
        /\ \A i, j \in 1..Len(Asm.src) : i < j => Asm.src[i] <= Asm.src[j]

\* C2 witness: AVC, the FU start (seq 0) pushed after the FU continuation
\* (seq 1, marker): the frame has the bytes of seq 0 before those of seq 1.
C2_Witness ==
    /\ Returned
    /\ codec = Some("Avc")
    /\ LastPkt.seq = 0 /\ LastPkt.payload = AvcFuStart
    /\ AsmSeqs = {0, 1}
    /\ Bytes = <<0, 0, 0, 1, 101, 170, 204>>

\* two sequence numbers adjacent in ascending order that are not consecutive
HasGap(S) ==
    \E a \in S, b \in S :
        a < b /\ b /= a + 1 /\ ~(\E m \in S : a < m /\ m < b)

\* C3: with drop_incomplete_frames = true, push_packet never returns a frame
\* whose collector held, at assembly, two adjacent non-consecutive sequence numbers.
C3_GapSuppression ==
    (Returned /\ config.drop_incomplete_frames) => ~HasGap(AsmSeqs)

\* C3 witness: start at seq 0, marker at seq 2, seq 1 missing: the collector
\* was assembled with the gap and the push returned nothing.
C3_Witness ==
    /\ Pushed /\ Assembled
    /\ config.drop_incomplete_frames
    /\ AsmSeqs = {0, 2}
    /\ Asm.entry.packets[0].payload = AvcFuStart
    /\ LastPkt.seq = 2 /\ LastPkt.marker
    /\ is_none(unwrap(ret))

\* the sequence numbers of S are consecutive modulo 2^16, starting at first
ConsecutiveFrom(S, first) ==
    S = {(first + k) % 65536 : k \in 0..(Cardinality(S) - 1)}

\* C4 (as claimed): a frame whose sequence numbers are consecutive modulo 2^16,
\* the run starting with the frame's start packet and nothing missing (as with
\* 0xFFFF, 0x0000), is gap-free and is emitted under the default configuration.
C4_WrapAdjacency ==
    (/\ Pushed /\ Assembled
     /\ config = ReorderConfig_default
     /\ codec \in {Some("Avc"), Some("Unknown")}
     /\ \E first \in AsmSeqs :
            /\ ConsecutiveFrom(AsmSeqs, first)
            /\ Asm.entry.packets[first].payload = AvcFuStart
            /\ \A s \in AsmSeqs \ {first} : Asm.entry.packets[s].payload = AvcFuMid)
    => (~Asm.incomplete /\ Returned)

\* C5 (as claimed): for max_buffered_packets_per_frame >= 1, pushing again the
\* packet just pushed, when that push emitted and dropped nothing, leaves the
\* frame collectors as they were after the first push.
C5_DuplicateIdempotent ==
    [][(/\ Pushed /\ ~Assembled
        /\ config.max_buffered_packets_per_frame >= 1
        /\ npush' = npush + 1
        /\ pkt' = pkt)
       => frames' = frames]_vars

\* C6: after an SSRC change every buffered packet, and so every packet of every
\* frame assembled by that push or a later one, was pushed since the change
\* (also when the SSRC switches back to an earlier value).
C6_SsrcReset ==
    /\ \A k \in DOMAIN origin : origin[k] = epoch
    /\ Assembled => \A s \in AsmSeqs : Asm.origin[s] = epoch

\* C6 witness: the SSRC changed twice (away and back) and the push under the
\* restored SSRC returned a frame.
C6_Witness ==
    /\ Returned
    /\ epoch = 2
    /\ current_ssrc = Some(1)
    /\ Len(Bytes) > 0

\* C7 (as claimed): with codec AVC or HEVC every frame push_packet returns
\* begins with the start code 00 00 00 01.
C7_StartCodeFraming ==
    (Returned /\ codec \in {Some("Avc"), Some("Hevc")}) =>
        (Len(Bytes) >= 4 /\ SubSeq(Bytes, 1, 4) = <<0, 0, 0, 1>>)

\* a Start packet under the codec's rules, by depacketizer kind
IsStart(c, payload) ==
    CASE c = "Avc" ->
            LET r == parse_avc_payload_header(payload)
            IN  r.ok /\ (\/ r.kind.tag \in {"Single", "StapA", "StapB", "Mtap16", "Mtap24"}
                         \/ (r.kind.tag \in {"FuA", "FuB"} /\ Bit(At(payload, 1), 7)))
      [] c = "Hevc" ->
            LET r == parse_hevc_payload_header(payload)
            IN  r.ok /\ (\/ r.kind.tag \in {"Single", "Ap", "Pacsi"}
                         \/ (r.kind.tag = "Fu" /\ Bit(At(payload, 2), 7)))
      [] c = "Vp9" -> Vp9PayloadDesc_parse(payload).ok /\ Bit(At(payload, 0), 3)
      [] OTHER -> FALSE

HoldsStart(c, entry) ==
    \E s \in DOMAIN entry.packets : IsStart(c, entry.packets[s].payload)

\* C8: with codec AVC, HEVC or VP9, push_packet returns a frame for timestamp t
\* only if t's collector has seen_marker and holds a Start packet; a push that
\* leaves the collector with the marker seen but no Start returns nothing and
\* keeps the collector.
C8_ReadinessGate ==
    (Pushed /\ codec \in {Some("Avc"), Some("Hevc"), Some("Vp9")}) =>
        /\ Assembled =>
              /\ Asm.timestamp = LastPkt.ts
              /\ Asm.entry.seen_marker
              /\ HoldsStart(unwrap(codec), Asm.entry)
        /\ Returned => Assembled
        /\ ~Assembled =>
              /\ LastPkt.ts \in DOMAIN frames
              /\ LastPkt.seq \in DOMAIN frames[LastPkt.ts].packets
              /\ ~(frames[LastPkt.ts].seen_marker
                   /\ HoldsStart(unwrap(codec), frames[LastPkt.ts]))
        /\ (LastPkt.marker /\ ~Assembled) =>
              /\ is_none(unwrap(ret))
              /\ frames[LastPkt.ts].seen_marker

\* C8 witness: HEVC, the marker arrived on an FU continuation and was held
\* back; the later push of the FU start (no marker) released the frame.
C8_Witness ==
    /\ Returned
    /\ codec = Some("Hevc")
    /\ ~LastPkt.marker /\ LastPkt.payload = HevcFuStart
    /\ \E s \in AsmSeqs : Asm.entry.packets[s].payload = HevcFuMid

\* C9: a collector for which the readiness predicate is true is still ready
\* after a further packet is inserted into it, provided the insertion leaves a
\* qualifying Start packet in place and does not trigger the overflow clear.
C9_ReadinessMonotone ==
    [][(/\ npush' = npush + 1
        /\ current_ssrc = current_ssrc'
        /\ is_some(codec)
        /\ unwrap(pkt').ts \in DOMAIN frames
        /\ frame_ready_to_flush(frames, unwrap(pkt').ts, unwrap(codec))
        /\ Cardinality(DOMAIN frames[unwrap(pkt').ts].packets)
               < config.max_buffered_packets_per_frame
        /\ (unwrap(codec) \in {"Avc", "Hevc", "Vp9"} =>
                \E s \in DOMAIN frames[unwrap(pkt').ts].packets \ {unwrap(pkt').seq} :
                    IsStart(unwrap(codec), frames[unwrap(pkt').ts].packets[s].payload)))
       => is_some(asm')]_vars

\* C9 witness: AVC, a push of an FU continuation without marker found its
\* collector ready (marker and Start buffered before) and flushed it.
C9_Witness ==
    /\ Pushed /\ Assembled
    /\ codec = Some("Avc")
    /\ ~LastPkt.marker /\ LastPkt.payload = AvcFuMid
    /\ \E s \in AsmSeqs \ {LastPkt.seq} : IsStart("Avc", Asm.entry.packets[s].payload)

\* C10: with codec AV1 or Unknown every push of a marker-bearing packet
\* assembles and removes the collector of its timestamp at once, returning its
\* bytes unless the frame is dropped as incomplete.
C10_Av1UnknownImmediate ==
    (Pushed /\ LastPkt.marker /\ codec \in {Some("Av1"), Some("Unknown")}) =>
        /\ Assembled
        /\ Asm.timestamp = LastPkt.ts
        /\ LastPkt.seq \in AsmSeqs
        /\ LastPkt.ts \notin DOMAIN frames
        /\ Returned <=> ~(config.drop_incomplete_frames /\ Asm.incomplete)

\* C10 witness: AV1, the marker packet (seq 1) alone, its predecessor never
\* arrived: the push returned the frame made of that packet only.
C10_Witness ==
    /\ Returned
    /\ codec = Some("Av1")
    /\ LastPkt.marker /\ LastPkt.seq = 1
    /\ AsmSeqs = {1}
    /\ LastPkt.ts \notin DOMAIN frames

\* C11: once the reassembler's codec is set (by set_codec or by the guess of the
\* first push, a guess of Unknown included), no push_packet changes it, pushes
\* that change the SSRC included, and guess_codec is consulted at most once.
C11_StickyCodec ==
    [][(npush' = npush + 1) =>
           /\ is_some(codec) => codec' = codec
           /\ is_some(codec')
           /\ nguess' <= 1
           /\ (is_some(codec) \/ npush > 0) => nguess' = nguess]_vars

\* C11 witness: the codec was guessed Unknown from an empty first payload; a
\* later push under another SSRC carried a payload the guesser reads as AV1,
\* and the codec is still Unknown after one consultation.
C11_Witness ==
    /\ Pushed
    /\ nguess = 1
    /\ epoch >= 1
    /\ codec = Some("Unknown")
    /\ guess_codec(LastPkt.payload) = "Av1"

\* C12: push_packet never indexes a payload out of range, for every codec,
\* configuration and payload (empty and truncated ones included): every header
\* length a depacketizer returns is at most the payload length, and every
\* assembly, FU header reconstruction included, reads only bytes that exist.
C12_NeverFails ==
    Pushed =>
        /\ \A c \in Codecs :
              header_len(c, LastPkt.payload).ok =>
                  header_len(c, LastPkt.payload).off <= Len(LastPkt.payload)
        /\ Assembled => Asm.in_range

\* C12 witness: AVC, an FU start followed by a truncated FU (7C alone, which the
\* depacketizer rejects) carrying the marker: assembled and returned.
C12_Witness ==
    /\ Pushed /\ Assembled
    /\ codec = Some("Avc")
    /\ AsmSeqs = {0, 1}
    /\ Asm.entry.packets[0].payload = AvcFuStart
    /\ Asm.entry.packets[1].payload = AvcFuShort
    /\ Returned
    /\ Bytes = <<0, 0, 0, 1, 101, 170, 124>>

\* C13: after every push_packet, every frame collector present in the
\* reassembler holds at least one packet, whatever
\* max_buffered_packets_per_frame is (0 included).
C13_CollectorNonEmpty ==
    \A t \in DOMAIN frames : DOMAIN frames[t].packets /= {}

\* C13 witness: max_buffered_packets_per_frame = 0; after three pushes without
\* a flush the collector is present and holds exactly the last packet.
C13_Witness ==
    /\ Pushed /\ ~Assembled
    /\ config.max_buffered_packets_per_frame = 0
    /\ npush = 3
    /\ LastPkt.ts \in DOMAIN frames
    /\ DOMAIN frames[LastPkt.ts].packets = {LastPkt.seq}

\* C14: for max_buffered_packets_per_frame = N >= 1 no collector ever holds
\* more than N packets, and a push into a collector that already holds N
\* packets (a duplicate sequence number included) discards all N and leaves
\* the collector, kept or flushed by that push, holding the new packet only.
C14_BoundedCollector ==
    [][(npush' = npush + 1 /\ config.max_buffered_packets_per_frame >= 1) =>
           LET p == unwrap(pkt')
               N == config.max_buffered_packets_per_frame
           IN  /\ \A t \in DOMAIN frames' : Cardinality(DOMAIN frames'[t].packets) <= N
               /\ is_some(asm') => Cardinality(DOMAIN unwrap(asm').entry.packets) <= N
               /\ (/\ p.ts \in DOMAIN frames
                   /\ Cardinality(DOMAIN frames[p.ts].packets) = N) =>
                       /\ evicted' = DOMAIN frames[p.ts].packets
                       /\ IF is_some(asm')
                          THEN DOMAIN unwrap(asm').entry.packets = {p.seq}
                          ELSE DOMAIN frames'[p.ts].packets = {p.seq}]_vars

\* C14 witness: N = 2, the collector held seq 0 and 1; the push of a duplicate
\* of seq 1 discarded both and left the collector with seq 1 alone.
C14_Witness ==
    /\ Pushed /\ ~Assembled
    /\ config.max_buffered_packets_per_frame = 2
    /\ evicted = {0, 1}
    /\ LastPkt.seq = 1
    /\ DOMAIN frames[LastPkt.ts].packets = {1}

\* C15: a push_packet that does not change the SSRC and carries timestamp t
\* assembles at most the collector of t, returns bytes only from that assembly,
\* and leaves every collector of another timestamp in place and unchanged; a
\* collector whose marker has not arrived and does not arrive with the push
\* stays in the map.
C15_PerPushEffect ==
    [][(npush' = npush + 1 /\ ~ssrc_changed(current_ssrc, unwrap(pkt'))) =>
           LET p == unwrap(pkt')
           IN  /\ \A t \in DOMAIN frames \ {p.ts} :
                      t \in DOMAIN frames' /\ frames'[t] = frames[t]
               /\ DOMAIN frames' \subseteq DOMAIN frames \cup {p.ts}
               /\ is_some(asm') => unwrap(asm').timestamp = p.ts
               /\ is_some(unwrap(ret')) => is_some(asm')
               /\ p.ts \in DOMAIN frames' \/ is_some(asm')
               /\ (p.ts \in DOMAIN frames /\ ~frames[p.ts].seen_marker /\ ~p.marker)
                      => p.ts \in DOMAIN frames']_vars

\* C15 witness: the frame of timestamp 2 was completed and returned while the
\* collector of the earlier timestamp 1, pushed first and still without its
\* marker, stays buffered: emission follows completion, not timestamp order.
C15_Witness ==
    /\ Returned
    /\ Asm.timestamp = 2
    /\ current_ssrc = Some(1) /\ epoch = 0
    /\ 1 \in DOMAIN frames
    /\ ~frames[1].seen_marker
    /\ 2 \notin DOMAIN frames

\* C16: a push_packet that finds the collector of its timestamp ready removes
\* it in that same call, whether its bytes are returned or it is dropped as
\* incomplete, and leaves no ready collector behind under that timestamp; the
\* next packet pushed with that timestamp starts a fresh collector holding
\* that packet only, with seen_marker equal to the packet's marker bit.
C16_CollectorLifecycle ==
    [][(npush' = npush + 1) =>
           LET p == unwrap(pkt')
           IN  /\ is_some(asm') => p.ts \notin DOMAIN frames'
               /\ is_none(asm') =>
                      /\ is_none(unwrap(ret'))
                      /\ ~frame_ready_to_flush(frames', p.ts, unwrap_or(codec', "Unknown"))
               /\ (is_some(asm) /\ unwrap(asm).timestamp = p.ts) =>
                      LET e == IF is_some(asm') THEN unwrap(asm').entry
                               ELSE frames'[p.ts]
                      IN  /\ DOMAIN e.packets = {p.seq}
                          /\ e.packets[p.seq].payload = p.payload
                          /\ e.seen_marker = p.marker
                          /\ evicted' = {}]_vars

\* C16 witness: the first push found its collector ready and removed it; the
\* second push, an unmarked packet of the same timestamp, opened a fresh
\* collector with that packet alone and no marker.
C16_Witness ==
    /\ Pushed /\ ~Assembled
    /\ npush = 2 /\ nflush = 1
    /\ LastPkt.seq = 1 /\ ~LastPkt.marker
    /\ evicted = {}
    /\ DOMAIN frames[LastPkt.ts].packets = {1}
    /\ ~frames[LastPkt.ts].seen_marker

\* an FU packet with S=1 / with S=0 under the codec's depacketizer
IsFuStart(c, payload) ==
    /\ c \in {"Avc", "Hevc"}
    /\ header_len(c, payload).ok
    /\ header_len(c, payload).kind.tag \in {"FuA", "FuB", "Fu"}
    /\ header_len(c, payload).kind.start

IsFuCont(c, payload) ==
    /\ c \in {"Avc", "Hevc"}
    /\ header_len(c, payload).ok
    /\ header_len(c, payload).kind.tag \in {"FuA", "FuB", "Fu"}
    /\ ~header_len(c, payload).kind.start

\* C17: with drop_incomplete_frames = true and codec AVC or HEVC, in every
\* frame push_packet returns, each FU packet with S=0 of the collector has an
\* FU packet with S=1 at a lower sequence number in the same collector.
C17_MissingFuStart ==
    (Returned /\ config.drop_incomplete_frames /\ codec \in {Some("Avc"), Some("Hevc")}) =>
        \A s \in AsmSeqs :
            IsFuCont(unwrap(codec), Asm.entry.packets[s].payload) =>
                \E s0 \in AsmSeqs :
                    s0 < s /\ IsFuStart(unwrap(codec), Asm.entry.packets[s0].payload)

\* C17 witness: HEVC, drop_incomplete_frames = true, the FU continuation at
\* seq 0 and the FU start at seq 1, no gap: the ready collector was assembled
\* and nothing was returned.
C17_Witness ==
    /\ Pushed /\ Assembled
    /\ config.drop_incomplete_frames
    /\ codec = Some("Hevc")
    /\ AsmSeqs = {0, 1}
    /\ Asm.entry.packets[0].payload = HevcFuMid
    /\ Asm.entry.packets[1].payload = HevcFuStart
    /\ is_none(unwrap(ret))

\* C18: with drop_incomplete_frames = false every push_packet that finds its
\* collector ready returns bytes, also when the collector has sequence gaps or
\* an FU continuation without a start; no returned byte comes from an FU
\* continuation that no FU start precedes in the collector.
C18_BestEffort ==
    (Pushed /\ Assembled /\ ~config.drop_incomplete_frames) =>
        /\ Returned
        /\ Len(Asm.src) = Len(Bytes)
        /\ \A s \in AsmSeqs :
              (/\ IsFuCont(unwrap(codec), Asm.entry.packets[s].payload)
               /\ ~\E s0 \in AsmSeqs :
                      s0 < s /\ IsFuStart(unwrap(codec), Asm.entry.packets[s0].payload))
              => \A i \in 1..Len(Asm.src) : Asm.src[i] /= s

\* C18 witness: AVC, drop_incomplete_frames = false, an FU continuation at
\* seq 0, seq 1 missing, the FU start at seq 2: the frame is returned with the
\* bytes of seq 2 only.
C18_Witness ==
    /\ Returned
    /\ ~config.drop_incomplete_frames
    /\ codec = Some("Avc")
    /\ AsmSeqs = {0, 2}
    /\ Asm.entry.packets[0].payload = AvcFuMid
    /\ Asm.entry.packets[2].payload = AvcFuStart
    /\ Asm.incomplete
    /\ Bytes = <<0, 0, 0, 1, 101, 170>>

\* C19: enable_reordering is inert: from any reachable reassembler state, the
\* same push_packet under a configuration that differs only in
\* enable_reordering returns the same value and leaves the same fields, so two
\* reassemblers differing only in that flag agree at every push of a common
\* call sequence.
C19_ReorderingInert ==
    [][(npush' = npush + 1) =>
           LET other == [config EXCEPT !.enable_reordering = ~config.enable_reordering]
           IN  \A r \in {push_packet(frames, current_ssrc, analyzer, codec, other,
                                       unwrap(pkt'))} :
               /\ Some(r.ret) = ret'
               /\ r.frames = frames'
               /\ r.analyzer = analyzer'
               /\ r.codec = codec'
               /\ r.current_ssrc = current_ssrc']_vars

\* C19 witness: enable_reordering = false and the FU start (seq 0) pushed after
\* the marker-bearing continuation (seq 1): the frame is returned reordered,
\* exactly as with the flag on.
C19_Witness ==
    /\ Returned
    /\ ~config.enable_reordering
    /\ codec = Some("Avc")
    /\ LastPkt.seq = 0 /\ LastPkt.payload = AvcFuStart
    /\ AsmSeqs = {0, 1}
    /\ Bytes = <<0, 0, 0, 1, 101, 170, 204>>

\* the payloads of the collector's packets lo..hi from offset 2, concatenated
\* in sequence order
RECURSIVE FuBodies(_, _, _)
FuBodies(packets, lo, hi) ==
    IF lo > hi THEN <<>>
    ELSE SubSeq(packets[lo].payload, 3, Len(packets[lo].payload))
         \o FuBodies(packets, lo + 1, hi)

RECURSIVE AggEntries(_)
AggEntries(rest) ==
    IF Len(rest) < 2 THEN <<>>
    ELSE LET size == rest[1] * 256 + rest[2]
         IN  IF size > Len(rest) - 2 THEN <<>>
             ELSE (<<0, 0, 0, 1>> \o SubSeq(rest, 3, 2 + size))
                  \o AggEntries(SubSeq(rest, 3 + size, Len(rest)))

\* C21: a frame made of one AVC STAP-A packet (after its 1-byte indicator) or
\* one HEVC AP packet (after its 2-byte header) is, for each complete
\* (size, NAL) entry in order, 00 00 00 01 and that entry's NAL bytes, stopping
\* at the first entry that runs past the payload, and is not marked incomplete.
C21_AggregationOutput ==
    (Pushed /\ Assembled /\ AsmSeqs = {LastPkt.seq}) =>
        LET payload == LastPkt.payload
        IN  /\ (codec = Some("Avc") /\ payload[1] % 32 = 24) =>
                   /\ ~Asm.incomplete
                   /\ Returned
                   /\ Bytes = AggEntries(SubSeq(payload, 2, Len(payload)))
            /\ (codec = Some("Hevc") /\ Len(payload) >= 2 /\ (payload[1] \div 2) % 64 = 48) =>
                   /\ ~Asm.incomplete
                   /\ Returned
                   /\ Bytes = AggEntries(SubSeq(payload, 3, Len(payload)))

\* C21 witness: the STAP-A 18 00 02 61 01 00 03 65 02 03 under AVC gives
\* 00 00 00 01 61 01 00 00 00 01 65 02 03.
C21_Witness ==
    /\ Returned
    /\ codec = Some("Avc")
    /\ LastPkt.payload = StapATest
    /\ Bytes = <<0, 0, 0, 1, 97, 1, 0, 0, 0, 1, 101, 2, 3>>

\* a payload with its packetization descriptor removed: VP9 1 byte plus 1 or 2
\* picture-id bytes when I is set, AV1 1 byte; whole when the descriptor is
\* cut short; raw for Unknown
Stripped(c, payload) ==
    LET n == Len(payload)
        drop(k) == SubSeq(payload, k + 1, n)
    IN  CASE c = "Vp9" ->
                IF n = 0 THEN payload
                ELSE IF payload[1] < 128 THEN drop(1)
                ELSE IF n < 2 THEN payload
                ELSE IF payload[2] < 128 THEN drop(2)
                ELSE IF n < 3 THEN payload
                ELSE drop(3)
          [] c = "Av1" -> IF n = 0 THEN payload ELSE drop(1)
          [] OTHER -> payload

\* the stripped payloads of the packets with sequence numbers in S, ascending
RECURSIVE StrippedConcat(_, _, _)
StrippedConcat(c, packets, S) ==
    IF S = {} THEN <<>>
    ELSE LET lo == CHOOSE s \in S : \A x \in S : s <= x
         IN  Stripped(c, packets[lo].payload) \o StrippedConcat(c, packets, S \ {lo})

\* C22: with codec VP9, AV1 or Unknown every frame push_packet returns is the
\* concatenation, in ascending sequence order, of the buffered payloads with
\* their descriptor removed (whole when the descriptor does not parse; raw for
\* Unknown).
C22_StrippedConcat ==
    (Returned /\ codec \in {Some("Vp9"), Some("Av1"), Some("Unknown")}) =>
        Bytes = StrippedConcat(unwrap(codec), Asm.entry.packets, AsmSeqs)

\* C22 witness: VP9, 80 85 07 0A (15-bit picture id) at seq 1 pushed before
\* 88 05 09 (7-bit picture id, B=1) at seq 0: the frame is 09 0A.
C22_Witness ==
    /\ Returned
    /\ codec = Some("Vp9")
    /\ AsmSeqs = {0, 1}
    /\ LastPkt.seq = 0 /\ LastPkt.payload = Vp9Pid7
    /\ Asm.entry.packets[1].payload = Vp9Pid15
    /\ Bytes = <<9, 10>>

\* what the last RtpPacket::parse call was given and returned
Parsed == is_some(buf) /\ is_some(parsed)
Buf == unwrap(buf)
Res == unwrap(parsed)

\* C23 (as claimed): for every buffer, of any length, whose byte 0 has its two
\* high bits different from 2, RtpPacket::parse returns InvalidVersion carrying
\* those two bits.
C23_VersionGate ==
    (Parsed /\ Len(Buf) >= 1 /\ Buf[1] \div 64 /= 2) =>
        (~Res.ok /\ Res.err = "InvalidVersion" /\ Res.version = Buf[1] \div 64)

\* the length of the fixed header, the CSRC list and the header extension that
\* the first byte and the extension length field of a buffer announce
HeaderLen(b) ==
    LET cc == b[1] % 16
        x == (b[1] \div 16) % 2 = 1
        base == 12 + 4 * cc
    IN  IF ~x THEN base
        ELSE IF Len(b) < base + 4 THEN base + 4
        ELSE base + 4 + 4 * (b[base + 3] * 256 + b[base + 4])

GuessRule(p) ==
    LET n == Len(p)
        nri == (p[1] \div 32) % 4
        t == p[1] % 32
    IN  IF n = 0 THEN "Unknown"
        ELSE IF n >= 3 /\ (p[1] % 128) \div 2 = 49 /\ p[3] >= 64 THEN "Hevc"
        ELSE IF p[1] % 4 = 0 THEN "Av1"
        ELSE IF t >= 24 /\ t <= 29 /\ n >= 2 /\ nri /= 0 THEN "Avc"
        ELSE IF t >= 1 /\ t <= 23 /\ nri /= 0 THEN "Avc"
        ELSE "Vp9"

\* C25: for every payload the codec guessed by a fresh analyzer is that of the
\* first matching rule in the order empty, HEVC FU, AV1, AVC 24..29, AVC 1..23,
\* VP9; Unknown is guessed only for the empty payload.
C25_GuesserOrder ==
    (is_some(pkt) /\ nguess = 1) =>
        /\ analyzer.codec = Some(GuessRule(LastPkt.payload))
        /\ (analyzer.codec = Some("Unknown") <=> LastPkt.payload = Empty)

\* C25 witness: 64 01 80 (AVC type 4 with NRI 3, low two bits 00) is guessed
\* AV1, the AV1 rule coming before the AVC rules.
C25_Witness ==
    /\ is_some(pkt) /\ nguess = 1
    /\ LastPkt.payload = <<100, 1, 128>>
    /\ analyzer.codec = Some("Av1")

\* what the last stand-alone analyze call saw and returned
Analyzed == is_some(pkt) /\ is_some(fb) /\ is_some(was_in_frame)
WasInFrame == unwrap(was_in_frame)
Fb == unwrap(fb)

\* the boundary for a start and an end flag
Boundary(start, end) ==
    CASE start /\ end -> "StartEnd"
      [] start /\ ~end -> "Start"
      [] ~start /\ end -> "End"
      [] OTHER -> "None"

\* how an AVC / HEVC payload reads: fragmentation (with S bit and original
\* type), single NAL (with type), other (aggregation, PACSI, unknown types),
\* or short (the depacketizer rejects it)
AvcShape(p) ==
    LET t == IF Len(p) = 0 THEN 0 ELSE p[1] % 32
    IN  IF Len(p) = 0 \/ (t \in {28, 29} /\ Len(p) < 2) THEN [shape |-> "short"]
        ELSE IF t \in {28, 29}
        THEN [shape |-> "fu", s |-> p[2] >= 128, vcl |-> (p[2] % 32) \in 1..5]
        ELSE IF t \in 1..23 THEN [shape |-> "single", vcl |-> t \in 1..5]
        ELSE [shape |-> "other"]

HevcShape(p) ==
    LET t == IF Len(p) = 0 THEN 0 ELSE (p[1] \div 2) % 64
    IN  IF Len(p) < 2 \/ (t = 49 /\ Len(p) < 3) THEN [shape |-> "short"]
        ELSE IF t = 49
        THEN [shape |-> "fu", s |-> p[3] >= 128, vcl |-> (p[3] % 64) <= 31]
        ELSE IF t \in {48, 50} THEN [shape |-> "other"]
        ELSE [shape |-> "single", vcl |-> t <= 31]

\* C26: with codec AVC (resp. HEVC), a fragmentation packet gives start = S and
\* is_VCL(original type) whatever in_frame is, a single-NAL packet start =
\* is_VCL(type) and not in_frame, aggregation, PACSI and unknown types start =
\* not in_frame; in all cases end = marker.
C26_NalBoundaries ==
    (Analyzed /\ analyzer.codec \in {Some("Avc"), Some("Hevc")}) =>
        LET sh == IF analyzer.codec = Some("Avc") THEN AvcShape(LastPkt.payload)
                  ELSE HevcShape(LastPkt.payload)
        IN  CASE sh.shape = "fu" -> Fb = Boundary(sh.s /\ sh.vcl, LastPkt.marker)
              [] sh.shape = "single" ->
                    Fb = Boundary(sh.vcl /\ ~WasInFrame, LastPkt.marker)
              [] sh.shape = "other" -> Fb = Boundary(~WasInFrame, LastPkt.marker)
              [] OTHER -> TRUE

\* C26 witness: AVC, already in a frame, an FU-A with S=1 and original type 5
\* without marker: Start is returned although in_frame was true.
C26_Witness ==
    /\ Analyzed
    /\ analyzer.codec = Some("Avc")
    /\ WasInFrame
    /\ LastPkt.payload = AvcFuStart /\ ~LastPkt.marker
    /\ Fb = "Start"

\* a payload whose VP9 descriptor parses: non-empty, and with the picture-id
\* bytes that the I bit and the M bit announce
Vp9Parses(p) ==
    /\ Len(p) >= 1
    /\ p[1] >= 128 => (Len(p) >= 2 /\ (p[2] >= 128 => Len(p) >= 3))

\* C27: with codec VP9 and a descriptor that parses, start = B bit or not
\* in_frame and end = E bit or marker; when the descriptor does not parse the
\* boundary is the generic one (start = not in_frame, end = marker).
C27_Vp9Boundaries ==
    (Analyzed /\ analyzer.codec = Some("Vp9")) =>
        LET p == LastPkt.payload
        IN  IF Vp9Parses(p)
            THEN Fb = Boundary((p[1] \div 8) % 2 = 1 \/ ~WasInFrame,
                               (p[1] \div 4) % 2 = 1 \/ LastPkt.marker)
            ELSE Fb = Boundary(~WasInFrame, LastPkt.marker)

\* C27 witness: VP9, in a frame, 7C 05 CC (B=1, E=1) without marker: StartEnd
\* is returned from the descriptor bits alone.
C27_Witness ==
    /\ Analyzed
    /\ analyzer.codec = Some("Vp9")
    /\ WasInFrame
    /\ LastPkt.payload = AvcFuMid /\ ~LastPkt.marker
    /\ Fb = "StartEnd"

\* C28 (as claimed): for every codec and every sequence of analyze calls,
\* whenever in_frame is true a Start has been returned since the most recent
\* End or StartEnd (or since creation).
C28_StartPrecedesInFrame ==
    analyzer.in_frame => start_open

\* C29: an analyzer whose codec is AV1 or Unknown returns Start or StartEnd
\* exactly when in_frame was false and None or End exactly when it was true,
\* with end = marker; in_frame is true exactly while a returned Start awaits its
\* End, so the boundaries read (StartEnd | Start None* End)* followed by an
\* optional unfinished Start None*.
C29_WellBracketed ==
    (analyzer.codec \in {Some("Av1"), Some("Unknown")}) =>
        /\ analyzer.in_frame <=> start_open
        /\ Analyzed =>
              /\ Fb = Boundary(~WasInFrame, LastPkt.marker)
              /\ Fb \in {"Start", "StartEnd"} <=> ~WasInFrame
              /\ Fb \in {"None", "End"} <=> WasInFrame

\* C29 witness: AV1, inside a frame opened by a Start, a payload the AV1
\* depacketizer rejects (empty) without marker: None, and the frame stays open.
C29_Witness ==
    /\ Analyzed
    /\ analyzer.codec = Some("Av1")
    /\ WasInFrame /\ start_open
    /\ LastPkt.payload = Empty /\ ~LastPkt.marker
    /\ Fb = "None"
    /\ analyzer.in_frame

\* C30 (as claimed): whenever push_packet returns a frame for timestamp t, the
\* collector assembled for t holds the sequence number of at least one packet
\* that was pushed into it with the marker bit set, for every
\* max_buffered_packets_per_frame >= 1.
C30_MarkerBuffered ==
    (Returned /\ config.max_buffered_packets_per_frame >= 1) =>
        (DOMAIN Asm.entry.packets) \cap Asm.marked # {}

\* C33 (as claimed): every payload of at least 3 bytes whose first byte has
\* non-zero NRI bits (b0 & 0x60) and an AVC NAL type (b0 & 0x1F) in 1..29 is
\* guessed as AVC by a fresh analyzer.
C33_AvcGuessedAvc ==
    (/\ is_some(pkt) /\ nguess = 1
     /\ Len(LastPkt.payload) >= 3
     /\ (LastPkt.payload[1] \div 32) % 4 # 0
     /\ LastPkt.payload[1] % 32 \in 1..29)
        => analyzer.codec = Some("Avc")

\* the frame in-order arrival produces: start code, the NAL header rebuilt
\* from the FU indicator and type (0x65), then the bodies in seq order
InOrderFrame(n) == <<0, 0, 0, 1, 101>> \o [k \in 1..n |-> 16 + (k - 1)]

\* C31 (as claimed): under the default configuration with codec AVC, once the
\* n >= 2 FU packets of a frame (consecutive seqs, S on the lowest, marker on
\* the highest) have each been pushed once, in whatever order, exactly one
\* frame has been returned and it has the bytes in-order arrival gives.
C31_ArrivalOrder ==
    (is_some(arrival) /\ unwrap(arrival).sent = 0..(unwrap(arrival).n - 1)) =>
        unwrap(arrival).emitted = <<InOrderFrame(unwrap(arrival).n)>>

\* C32: after every push_packet the reassembler's codec is Some and equals the
\* codec held by its analyzer, for every interleaving of set_codec and
\* push_packet calls and across SSRC resets.
C32_CodecAgreement ==
    Pushed => (is_some(codec) /\ analyzer.codec = codec)

\* C32 witness: set_codec chose HEVC before any guess was made, and a later
\* push under another SSRC (resetting the analyzer) carried a payload the
\* guesser does not read as HEVC; reassembler and analyzer both hold HEVC.
C32_Witness ==
    /\ Pushed
    /\ nguess = 0
    /\ epoch >= 1
    /\ guess_codec(LastPkt.payload) # "Hevc"
    /\ codec = Some("Hevc")
    /\ analyzer.codec = Some("Hevc")

====
